---- MODULE Spec2Model ----
(***************************************************************************)
(* Astra Astronomy API (src/main.py): the process-wide SimpleCache and the *)
(* /v1 request handlers that read and write it.                            *)
(*                                                                         *)
(* Time is counted in whole seconds.  An optional Python value is a        *)
(* sequence: None is << >> and a present value x is << x >>.  A Python     *)
(* string built by json.dumps is the tuple << "json", v >>.                *)
(***************************************************************************)
EXTENDS Integers, Sequences, FiniteSets, TLC

VARIABLES
    now,        \* datetime.now(), in seconds
    ticks,      \* number of clock advances so far
    cache,      \* SimpleCache.cache  : key -> value
    expiry,     \* SimpleCache.expiry : key -> absolute time
    ref,        \* reference cache that drops an entry the instant it expires
    lastSet,    \* history: per key, the most recent setex call still in force
    lastGet,    \* history: the get call made by the step just taken, if any
    scope,      \* the endpoint whose handler the requests of this run call
    profile,    \* which requests and upstream answers occur in this run
    pc,         \* per request: "idle", "fetching" (awaiting the upstream) or "done"
    rq,         \* per request: its query parameters
    resp,       \* per request: the response sent to the client
    obs,        \* per request: history of what the handler did
    calc        \* a call of a helper function: its argument and what it returned

hvars == <<scope, profile, pc, rq, resp, obs, calc>>
vars == <<now, ticks, cache, expiry, ref, lastSet, lastGet, scope, profile, pc, rq, resp, obs,
          calc>>

----------------------------------------------------------------------------
(* Bounds *)

MaxTicks == 2
MaxTTL == 2
MaxReq == 2

None == << >>
Some(x) == << x >>

CKeys == {<<"k", 1>>, <<"k", 2>>}
CValues == {<<"json", 1>>, <<"json", 2>>}
CTTLs == 1..MaxTTL

----------------------------------------------------------------------------
(* SimpleCache *)

DropAll(m, key) == [k \in {} |-> m[k]]
Drop(m, key) == [k \in DOMAIN m \ {key} |-> m[k]]
Put(m, key, x) == [k \in DOMAIN m \cup {key} |-> IF k = key THEN x ELSE m[k]]
Empty == [k \in {} |-> None]

\* get, line 60: the entry is served only strictly before its expiry
FreshLate(key) == key \in DOMAIN cache /\ now <= expiry[key]
Fresh(key) == key \in DOMAIN cache /\ now < expiry[key]

\* get, lines 60-68: the value returned
GetResultStale(key) == IF key \in DOMAIN cache THEN cache[key] ELSE None
GetResult(key) == IF Fresh(key) THEN cache[key] ELSE None

\* get, lines 63-66: an expired entry is removed from both maps
CacheAfterGetKeep(key) == cache
CacheAfterGet(key) == IF Fresh(key) THEN cache ELSE Drop(cache, key)
ExpiryAfterGet(key) == IF Fresh(key) THEN expiry ELSE Drop(expiry, key)

\* setex, line 72
SetexCacheKeep(m, key, ttl, value) == IF key \in DOMAIN m THEN m ELSE Put(m, key, value)
SetexCache(m, key, ttl, value) == Put(m, key, value)

\* setex, line 73
SetexExpiryMax(m, key, ttl, value) ==
    IF key \in DOMAIN m /\ m[key] > now + ttl THEN m ELSE Put(m, key, now + ttl)
SetexExpiry(m, key, ttl, value) == Put(m, key, now + ttl)

\* delete, lines 77-79
DeleteCache(key) == IF key \in DOMAIN cache THEN Drop(cache, key) ELSE cache
DeleteExpiryKeep(key) == expiry
DeleteExpiry(key) == IF key \in DOMAIN cache THEN Drop(expiry, key) ELSE expiry

----------------------------------------------------------------------------
(* The reference cache and the history of calls *)

RefGet(key) == IF key \in DOMAIN ref THEN ref[key].value ELSE None
RefPurge(m, t) == [k \in {j \in DOMAIN m : t < m[j].expires} |-> m[k]]

GetRecord(key) ==
    [key |-> key, result |-> GetResult(key), refResult |-> RefGet(key),
     stored |-> key \in DOMAIN cache]

SetRecord(key, ttl, value, by) ==
    [value |-> value, time |-> now, expires |-> now + ttl, by |-> by,
     replaced |-> key \in DOMAIN cache /\ cache[key] # value,
     shortened |-> key \in DOMAIN cache /\ expiry[key] > now + ttl]

----------------------------------------------------------------------------
(* Cache operations as steps *)

\* cache.get(key)
GetStep(key) ==
    /\ lastGet' = Some(GetRecord(key))
    /\ cache' = CacheAfterGet(key)
    /\ expiry' = ExpiryAfterGet(key)
    /\ UNCHANGED <<ref, lastSet>>

\* cache.setex(key, ttl, value), called by `by` (0: called directly)
SetexStepFromArrival(key, ttl, value, by) ==
    /\ cache' = SetexCache(cache, key, ttl, value)
    /\ expiry' = Put(expiry, key, (IF by \in DOMAIN obs THEN obs[by].readAt ELSE now) + ttl)
    /\ ref' = Put(ref, key, [value |-> value, expires |-> now + ttl])
    /\ lastSet' = Put(lastSet, key, SetRecord(key, ttl, value, by))
    /\ lastGet' = None
SetexStep(key, ttl, value, by) ==
    /\ cache' = SetexCache(cache, key, ttl, value)
    /\ expiry' = SetexExpiry(expiry, key, ttl, value)
    /\ ref' = Put(ref, key, [value |-> value, expires |-> now + ttl])
    /\ lastSet' = Put(lastSet, key, SetRecord(key, ttl, value, by))
    /\ lastGet' = None

\* cache.get(key) missing, then cache.setex(key, ttl, value), with no
\* suspension point in between
GetSetexStep(key, ttl, value, by) ==
    /\ cache' = SetexCache(CacheAfterGet(key), key, ttl, value)
    /\ expiry' = SetexExpiry(ExpiryAfterGet(key), key, ttl, value)
    /\ ref' = Put(ref, key, [value |-> value, expires |-> now + ttl])
    /\ lastSet' = Put(lastSet, key,
                      [value |-> value, time |-> now, expires |-> now + ttl, by |-> by,
                       replaced |-> FALSE, shortened |-> FALSE])
    /\ lastGet' = None

\* a step that makes no cache call
ClearStep ==
    /\ lastGet' = None
    /\ cache' = Empty
    /\ expiry' = Empty
    /\ UNCHANGED <<ref, lastSet>>
NoCacheStep ==
    /\ lastGet' = None
    /\ UNCHANGED <<cache, expiry, ref, lastSet>>

Get(key) ==
    /\ GetStep(key)
    /\ UNCHANGED <<now, ticks, hvars>>

Setex(key, ttl, value) ==
    /\ SetexStep(key, ttl, value, 0)
    /\ UNCHANGED <<now, ticks, hvars>>

Delete(key) ==
    /\ cache' = DeleteCache(key)
    /\ expiry' = DeleteExpiry(key)
    /\ ref' = Drop(ref, key)
    /\ lastSet' = Drop(lastSet, key)
    /\ lastGet' = None
    /\ UNCHANGED <<now, ticks, hvars>>

\* clear, lines 83-84
Clear ==
    /\ cache' = Empty
    /\ expiry' = Empty
    /\ ref' = Empty
    /\ lastSet' = Empty
    /\ lastGet' = None
    /\ UNCHANGED <<now, ticks, hvars>>

\* The clock moves forward: by one second, or to the second before or the
\* very second of a stored entry's expiry.
TickTargets ==
    {now + 1} \cup {expiry[k] - 1 : k \in DOMAIN expiry} \cup {expiry[k] : k \in DOMAIN expiry}

Tick ==
    /\ ticks < MaxTicks
    /\ \E t \in TickTargets :
        /\ t > now
        /\ now' = t
    /\ ticks' = ticks + 1
    /\ ref' = RefPurge(ref, now')
    /\ lastGet' = None
    /\ UNCHANGED <<cache, expiry, lastSet, hvars>>

----------------------------------------------------------------------------
(* Requests.  A latitude or longitude is a whole number of 1/10000 degree.  *)
(* A date is the << year, month, day >> matched by \d{4}-\d{2}-\d{2}, a     *)
(* time the << hour, minute >> matched by \d{2}:\d{2}, and a place or       *)
(* planet name a sequence of characters.                                     *)

Req == 1..MaxReq

Upstreams == {"weather", "iss", "apod", "asteroids", "earth", "geocode"}
Locals == {"moon", "planet", "constellations"}
Endpoints == Upstreams \cup Locals

NoRq ==
    [ep |-> "none", latitude |-> None, longitude |-> None, date |-> None, time |-> None,
     planet |-> None, days_ahead |-> None, max_distance_ld |-> None,
     min_altitude |-> None, image_type |-> None,
     city |-> None, state |-> None, country |-> None]

UpperCase == <<"A","B","C","D","E","F","G","H","I","J","K","L","M",
               "N","O","P","Q","R","S","T","U","V","W","X","Y","Z">>
LowerCase == <<"a","b","c","d","e","f","g","h","i","j","k","l","m",
               "n","o","p","q","r","s","t","u","v","w","x","y","z">>

\* str.upper and str.lower on one character
Upper(c) == IF \E i \in 1..26 : LowerCase[i] = c
            THEN UpperCase[CHOOSE i \in 1..26 : LowerCase[i] = c] ELSE c
Lower(c) == IF \E i \in 1..26 : UpperCase[i] = c
            THEN LowerCase[CHOOSE i \in 1..26 : UpperCase[i] = c] ELSE c

\* str.capitalize, line 698
capitalize(str) == [i \in 1..Len(str) |-> IF i = 1 THEN Upper(str[i]) ELSE Lower(str[i])]

\* line 683
VALID_PLANETS ==
    {<<"M","e","r","c","u","r","y">>, <<"V","e","n","u","s">>, <<"M","a","r","s">>,
     <<"J","u","p","i","t","e","r">>, <<"S","a","t","u","r","n">>,
     <<"U","r","a","n","u","s">>, <<"N","e","p","t","u","n","e">>}

\* Sample query values
Lats == {360331, 360349, 360351}
Lons == {-867828}
DateOk == <<2025, 12, 1>>
DateBadCalendar == <<2025, 13, 1>>
DateOld == <<1990, 1, 1>>
DateFuture == <<2031, 1, 1>>
Fairbanks == <<"F","a","i","r","b","a","n","k","s">>
Alaska == <<"A","l","a","s","k","a">>
US == <<"U","S">>

WeatherInputs ==
    {[NoRq EXCEPT !.ep = "weather", !.latitude = Some(la), !.longitude = Some(lo)] :
        la \in Lats \cup {910000}, lo \in Lons}

MoonInputs ==
    {[NoRq EXCEPT !.ep = "moon", !.date = d, !.latitude = loc[1], !.longitude = loc[2]] :
        d \in {None, Some(DateOk), Some(DateBadCalendar)},
        loc \in {<<None, None>>, <<Some(360331), Some(-867828)>>,
                 <<Some(360349), Some(-867828)>>}}

IssInputs == {[NoRq EXCEPT !.ep = "iss"]}

ApodInputs ==
    {[NoRq EXCEPT !.ep = "apod", !.date = d] :
        d \in {None, Some(DateOk), Some(DateBadCalendar), Some(DateOld), Some(DateFuture)}}

AsteroidsInputs ==
    {[NoRq EXCEPT !.ep = "asteroids", !.days_ahead = Some(n), !.max_distance_ld = Some(10)] :
        n \in {7, 30}}

PlanetInputs ==
    {[NoRq EXCEPT !.ep = "planet", !.planet = Some(<<"m","a","r","s">>), !.date = d,
                  !.latitude = loc[1], !.longitude = loc[2]] :
        d \in {None, Some(DateOk), Some(DateBadCalendar)},
        loc \in {<<None, None>>, <<Some(360331), Some(-867828)>>, <<Some(360331), None>>}}
    \cup {[NoRq EXCEPT !.ep = "planet", !.planet = Some(<<"P","l","u","t","o">>)],
          [NoRq EXCEPT !.ep = "planet", !.planet = Some(<<"M","a","r","s">>),
                       !.date = Some(DateOk), !.time = Some(<<21, 0>>)]}

ConstellationsInputs ==
    {[NoRq EXCEPT !.ep = "constellations", !.latitude = Some(la), !.longitude = Some(-867828),
                  !.date = d, !.min_altitude = Some(20)] :
        la \in {360331, 360349}, d \in {None, Some(DateOk), Some(DateBadCalendar)}}

EarthInputs ==
    {[NoRq EXCEPT !.ep = "earth", !.date = d, !.image_type = Some("natural")] :
        d \in {None, Some(DateOk), Some(DateBadCalendar)}}

GeocodeInputs ==
    {[NoRq EXCEPT !.ep = "geocode", !.city = Some(c), !.state = st, !.country = Some(US)] :
        c \in {Fairbanks, Fairbanks \o <<" ">>,
               [i \in 1..Len(Fairbanks) |-> Lower(Fairbanks[i])]},
        st \in {Some(Alaska)}}
    \cup {[NoRq EXCEPT !.ep = "geocode", !.city = Some(Fairbanks), !.country = Some(US)]}

Inputs(ep) ==
    CASE ep = "weather" -> WeatherInputs
      [] ep = "moon" -> MoonInputs
      [] ep = "iss" -> IssInputs
      [] ep = "apod" -> ApodInputs
      [] ep = "asteroids" -> AsteroidsInputs
      [] ep = "planet" -> PlanetInputs
      [] ep = "constellations" -> ConstellationsInputs
      [] ep = "earth" -> EarthInputs
      [] ep = "geocode" -> GeocodeInputs
      [] OTHER -> {}

\* Query(..., ge=-90, le=90) and Query(..., ge=-180, le=180): checked by the
\* framework before the handler runs
CoordinatesAny(q) == TRUE
CoordinatesInRange(q) ==
    /\ q.latitude # None => (q.latitude[1] >= -900000 /\ q.latitude[1] <= 900000)
    /\ q.longitude # None => (q.longitude[1] >= -1800000 /\ q.longitude[1] <= 1800000)

\* A smaller choice of requests per endpoint
FewInputs(ep) ==
    CASE ep = "weather" ->
            {q \in WeatherInputs : q.latitude \in {Some(360331), Some(360349)}}
      [] ep = "moon" -> {q \in MoonInputs : q.date = None /\ q.latitude \in {None, Some(360331)}}
      [] ep = "apod" -> {q \in ApodInputs : q.date \in {None, Some(DateOld)}}
      [] ep = "asteroids" -> {q \in AsteroidsInputs : q.days_ahead = Some(7)}
      [] ep = "planet" -> {q \in PlanetInputs : q.date = None}
      [] ep = "constellations" ->
            {q \in ConstellationsInputs : q.date = None /\ q.latitude = Some(360331)}
      [] ep = "earth" -> {q \in EarthInputs : q.date = None}
      [] ep = "geocode" ->
            {q \in GeocodeInputs : q.state # None /\ q.city = Some(Fairbanks)}
      [] OTHER -> Inputs(ep)

\* The smallest choice: as above, with one weather location
OneInputs(ep) ==
    IF ep = "weather" THEN {q \in FewInputs(ep) : q.latitude = Some(360331)}
    ELSE FewInputs(ep)

\* Requests with a coordinate just outside its range, and one with the
\* latitude on the edge of it
OffRangeInputs(ep) ==
    IF ep \in {"weather", "moon", "planet", "constellations"}
    THEN LET b == CHOOSE q \in OneInputs(ep) : q.latitude # None /\ q.longitude # None
         IN  {[b EXCEPT !.latitude = Some(la)] : la \in {900001, -900001}}
             \cup {[b EXCEPT !.longitude = Some(lo)] : lo \in {1800001, -1800001}}
             \cup {[b EXCEPT !.latitude = Some(900000)]}
    ELSE {}

\* Requests for the date the clock starts on, on the endpoints whose key
\* holds a date or a word for its absence
DatedInputs(ep) ==
    IF ep \in {"moon", "apod", "earth"}
    THEN {[q EXCEPT !.date = Some(DateOk)] : q \in {p \in OneInputs(ep) : p.date = None}}
    ELSE {}

\* the requests that can arrive in this run
Ins ==
    CASE profile = "few" -> FewInputs(scope)
      [] profile = "one" -> OneInputs(scope)
      [] profile = "range" -> OneInputs(scope) \cup OffRangeInputs(scope)
      [] profile = "date" -> OneInputs(scope) \cup DatedInputs(scope)
      [] OTHER -> Inputs(scope)

----------------------------------------------------------------------------
(* Cache keys and TTLs *)

\* round(x, 2) of x given in 1/10000: the nearest 1/100.  (At a tie Python
\* follows the binary value of the float; no sample latitude is a tie.)
Round2(x) ==
    LET q == x \div 100
        r == x % 100
    IN  IF r < 50 THEN q
        ELSE IF r > 50 THEN q + 1
        ELSE IF q % 2 = 0 THEN q ELSE q + 1

\* date or 'today', time or 'now', ...
OrElseDate(opt, word) == IF opt = None THEN DateOk ELSE opt[1]
OrElse(opt, word) == IF opt = None THEN <<word>> ELSE opt[1]

\* f"{state}" of an optional string
Str(opt) == IF opt = None THEN <<"N","o","n","e">> ELSE opt[1]

\* lines 256-258
weather_key_raw(q) == <<"weather", q.latitude[1], q.longitude[1]>>
weather_key(q) == <<"weather", Round2(q.latitude[1]), Round2(q.longitude[1])>>

\* lines 342, 435, 492, 563, 703, 851, 970, 1056
CacheKey(q) ==
    CASE q.ep = "weather" -> weather_key(q)
      [] q.ep = "moon" -> <<"moon", OrElse(q.date, "today"), q.latitude, q.longitude>>
      [] q.ep = "iss" -> <<"iss", "current">>
      [] q.ep = "apod" -> <<"apod", OrElse(q.date, "today")>>
      [] q.ep = "asteroids" -> <<"asteroids", q.days_ahead[1], q.max_distance_ld[1]>>
      [] q.ep = "planet" ->
            <<"planet", capitalize(q.planet[1]), OrElse(q.date, "now"),
              OrElse(q.time, "now"), q.latitude, q.longitude>>
      [] q.ep = "constellations" ->
            <<"constellations", q.latitude[1], q.longitude[1], OrElse(q.date, "now"),
              OrElse(q.time, "now"), q.min_altitude[1]>>
      [] q.ep = "earth" -> <<"earth", OrElse(q.date, "latest"), q.image_type[1]>>
      [] q.ep = "geocode" -> <<"geocode", q.city[1], Str(q.state), q.country[1]>>

WEATHER_TTL == 300
MOON_TTL == 86400
ISS_TTL == 60
APOD_TTL == 86400
ASTEROIDS_TTL == 43200
PLANET_TTL_LOCATION == 300
PLANET_TTL == 3600
CONSTELLATIONS_TTL == 1800
EARTH_TTL == 7200
GEOCODE_TTL == 2592000

\* the ttl_seconds each handler passes to cache.setex
TtlGeocodeOneDay(q) ==
    CASE q.ep = "weather" -> WEATHER_TTL
      [] q.ep = "moon" -> MOON_TTL
      [] q.ep = "iss" -> ISS_TTL
      [] q.ep = "apod" -> APOD_TTL
      [] q.ep = "asteroids" -> ASTEROIDS_TTL
      [] q.ep = "planet" -> IF q.latitude # None THEN PLANET_TTL_LOCATION ELSE PLANET_TTL
      [] q.ep = "constellations" -> CONSTELLATIONS_TTL
      [] q.ep = "earth" -> EARTH_TTL
      [] q.ep = "geocode" -> MOON_TTL
Ttl(q) ==
    CASE q.ep = "weather" -> WEATHER_TTL
      [] q.ep = "moon" -> MOON_TTL
      [] q.ep = "iss" -> ISS_TTL
      [] q.ep = "apod" -> APOD_TTL
      [] q.ep = "asteroids" -> ASTEROIDS_TTL
      [] q.ep = "planet" -> IF q.latitude # None THEN PLANET_TTL_LOCATION ELSE PLANET_TTL
      [] q.ep = "constellations" -> CONSTELLATIONS_TTL
      [] q.ep = "earth" -> EARTH_TTL
      [] q.ep = "geocode" -> GEOCODE_TTL

----------------------------------------------------------------------------
(* Dates *)

DaysIn(y, m) ==
    IF m \in {4, 6, 9, 11} THEN 30
    ELSE IF m # 2 THEN 31
    ELSE IF (y % 4 = 0 /\ y % 100 # 0) \/ y % 400 = 0 THEN 29 ELSE 28

\* datetime.strptime(date, '%Y-%m-%d') succeeds
ValidCalendar(d) == d[1] >= 1 /\ d[2] \in 1..12 /\ d[3] >= 1 /\ d[3] <= DaysIn(d[1], d[2])

\* datetime.strptime(time, '%H:%M') succeeds
ValidClock(t) == t[1] \in 0..23 /\ t[2] \in 0..59

DateLess(a, b) ==
    \/ a[1] < b[1]
    \/ a[1] = b[1] /\ a[2] < b[2]
    \/ a[1] = b[1] /\ a[2] = b[2] /\ a[3] < b[3]

\* the calendar date at clock value t; the clock reads 0 at 2025-12-01 00:00
DateAt(t) ==
    LET n == t \div 86400
    IN  IF n < 31 THEN <<2025, 12, 1 + n>>
        ELSE IF n < 62 THEN <<2026, 1, n - 30>>
        ELSE IF n < 90 THEN <<2026, 2, n - 61>>
        ELSE <<2026, 3, n - 89>>

ClockAt(t) == <<(t % 86400) \div 3600, (t % 3600) \div 60>>

----------------------------------------------------------------------------
(* Responses and exceptions *)

NoResp == [http |-> 0, status |-> "none", code |-> "", cached |-> FALSE, data |-> None]

\* success_response, lines 198-209
success_response_uncached(data, cached) ==
    [http |-> 200, status |-> "success", code |-> "", cached |-> FALSE, data |-> Some(data)]
success_response(data, cached) ==
    [http |-> 200, status |-> "success", code |-> "", cached |-> cached, data |-> Some(data)]

\* the HTTPException that error_response raises (lines 211-226), as the
\* client receives it when nothing catches it
error_response(code, status_code) ==
    [http |-> status_code, status |-> "error", code |-> code, cached |-> FALSE, data |-> None]

\* the framework's answer to a query parameter that fails its Query(...) rule
validation_error ==
    [http |-> 422, status |-> "invalid", code |-> "", cached |-> FALSE, data |-> None]

NoExc == [type |-> "none", status |-> 0, code |-> ""]
Exc(type) == [type |-> type, status |-> 0, code |-> ""]
\* httpx.HTTPStatusError raised by raise_for_status
StatusExc(status) == [type |-> "HTTPStatusError", status |-> status, code |-> ""]
\* error_response called inside the try block
HTTPExc(code, status_code) == [type |-> "HTTPException", status |-> status_code, code |-> code]

Returned(result) == [ok |-> TRUE, exc |-> NoExc, result |-> Some(result)]
Raised(e) == [ok |-> FALSE, exc |-> e, result |-> None]

\* json.dumps and json.loads
JsonDumps(v) == <<"json", v>>
JsonLoads(str) == str[2]

\* `if cached_data:` -- None is falsy; a string made by json.dumps is never
\* empty, so it is truthy
Truthy(v) == v # None

\* the except clauses of each handler
CatchAll(ep, e) == error_response("INTERNAL_ERROR", 500)
Catch(ep, e) ==
    CASE ep \in {"weather", "iss"} ->
            IF e.type = "TimeoutException" THEN error_response("SERVICE_UNAVAILABLE", 503)
            ELSE IF e.type = "HTTPStatusError" THEN error_response("SERVICE_ERROR", 503)
            ELSE error_response("INTERNAL_ERROR", 500)
      [] ep = "moon" ->
            IF e.type = "ValueError" THEN error_response("INVALID_DATE", 400)
            ELSE error_response("INTERNAL_ERROR", 500)
      [] ep = "apod" ->
            IF e.type = "ValueError" THEN error_response("INVALID_DATE", 400)
            ELSE IF e.type = "HTTPStatusError" THEN
                IF e.status = 429 THEN error_response("RATE_LIMITED", 429)
                ELSE error_response("SERVICE_UNAVAILABLE", 503)
            ELSE error_response("INTERNAL_ERROR", 500)
      [] ep \in {"asteroids", "geocode"} ->
            IF e.type = "TimeoutException" THEN error_response("SERVICE_UNAVAILABLE", 503)
            ELSE error_response("INTERNAL_ERROR", 500)
      [] ep \in {"planet", "constellations"} -> error_response("INTERNAL_ERROR", 500)
      [] ep = "earth" ->
            IF e.type = "ValueError" THEN error_response("NO_IMAGES_AVAILABLE", 404)
            ELSE IF e.type = "HTTPStatusError" THEN
                IF e.status = 429 THEN error_response("RATE_LIMITED", 429)
                ELSE error_response("SERVICE_UNAVAILABLE", 503)
            ELSE error_response("INTERNAL_ERROR", 500)

----------------------------------------------------------------------------
(* What the upstream answers, and what a local computation meets *)

UpData == {1, 2}

Outcome(kind, status, shape, d) == [kind |-> kind, status |-> status, shape |-> shape, d |-> d]

\* shape of a parsed 2xx body: "full"; "partial" (an optional field absent);
\* "missing" (a required field absent); "empty" (an empty list, or no rows);
\* "nofields" (an object with neither "fields" nor "data")
Shapes(ep) ==
    CASE ep \in {"weather", "iss", "apod"} -> {"partial", "missing"}
      [] ep = "asteroids" -> {"empty", "nofields", "missing"}
      [] ep \in {"earth", "geocode"} -> {"partial", "empty", "missing"}
      [] OTHER -> {}

Outcomes(ep) ==
    IF ep \in Upstreams
    THEN {Outcome("timeout", 0, "", 0), Outcome("status", 429, "", 0),
          Outcome("status", 500, "", 0), Outcome("badjson", 200, "", 0)}
         \cup {Outcome("ok", 200, "full", d) : d \in UpData}
         \cup {Outcome("ok", 200, sh, 1) : sh \in Shapes(ep)}
    ELSE {Outcome("ok", 0, "", 0), Outcome("ioerror", 0, "", 0)}

\* A smaller choice of answers: no answer in time, or a complete body (for
\* the asteroid feed also a body without "fields" and "data")
FewOutcomes(ep) ==
    {o \in Outcomes(ep) :
        \/ o.kind \in {"timeout", "ioerror"}
        \/ o.kind = "ok" /\ o.shape \in {"", "full", "nofields"}}

\* The smallest choice: no answer in time, or one complete body
OneOutcomes(ep) == {o \in FewOutcomes(ep) : o.d # 2 /\ o.shape # "nofields"}

\* the answers the upstream can give in this run
OutsNever == {}
Outs ==
    CASE profile = "few" -> FewOutcomes(scope)
      [] profile \in {"one", "range", "date"} -> OneOutcomes(scope)
      [] OTHER -> Outcomes(scope)

\* async with httpx.AsyncClient(...): client.get, raise_for_status, response.json
Await(o) ==
    CASE o.kind = "timeout" -> Exc("TimeoutException")
      [] o.kind = "status" -> StatusExc(o.status)
      [] o.kind = "badjson" -> Exc("ValueError")
      [] OTHER -> NoExc

----------------------------------------------------------------------------
(* The handlers' work between the cache read and the cache write *)

\* get_apod, lines 504-515: the date checks made before the upstream call
apod_prepare(q) ==
    IF q.date = None THEN NoExc
    ELSE IF ~ValidCalendar(q.date[1]) THEN Exc("ValueError")
    ELSE IF DateLess(q.date[1], <<1995, 6, 16>>) THEN HTTPExc("INVALID_DATE", 400)
    ELSE IF DateLess(DateAt(now), q.date[1]) THEN HTTPExc("INVALID_DATE", 400)
    ELSE NoExc

Prepare(q) == IF q.ep = "apod" THEN apod_prepare(q) ELSE NoExc

\* get_weather, lines 278-309
weather_process(q, o) ==
    IF Await(o) # NoExc THEN Raised(Await(o))
    ELSE IF o.shape = "missing" THEN Raised(Exc("KeyError"))
    ELSE Returned([latitude |-> q.latitude[1], longitude |-> q.longitude[1],
                   current |-> o.d,
                   cloud_cover_percent |-> IF o.shape = "partial" THEN 0 ELSE 50,
                   timestamp |-> now])

\* get_iss, lines 446-463
iss_process(q, o) ==
    IF Await(o) # NoExc THEN Raised(Await(o))
    ELSE IF o.shape = "missing" THEN Raised(Exc("KeyError"))
    ELSE Returned([position |-> o.d,
                   visibility |-> IF o.shape = "partial" THEN None ELSE Some("daylight")])

\* get_apod, lines 519-532
apod_process(q, o) ==
    IF Await(o) # NoExc THEN Raised(Await(o))
    ELSE IF o.shape = "missing" THEN Raised(Exc("KeyError"))
    ELSE Returned([title |-> o.d,
                   hdurl |-> IF o.shape = "partial" THEN None ELSE Some(o.d)])

\* get_asteroids, lines 571-665; t0 is the time the handler started
asteroids_process(q, o, t0) ==
    LET query == <<q.days_ahead[1], q.max_distance_ld[1], DateAt(t0),
                   DateAt(t0 + 86400 * q.days_ahead[1])>>
    IN  IF Await(o) # NoExc THEN Raised(Await(o))
        ELSE IF o.shape \in {"empty", "nofields"}
             THEN Returned([query |-> query, count |-> 0, close_approaches |-> << >>])
        ELSE IF o.shape = "missing" THEN Raised(Exc("ValueError"))
        ELSE Returned([query |-> query, count |-> 1, close_approaches |-> <<o.d>>])

\* get_earth_image, lines 988-1025
earth_process(q, o) ==
    IF Await(o) # NoExc THEN Raised(Await(o))
    ELSE IF o.shape = "empty" THEN Raised(HTTPExc("NO_IMAGES_AVAILABLE", 404))
    ELSE IF o.shape = "missing" THEN Raised(Exc("KeyError"))
    ELSE Returned([image_type |-> q.image_type[1], images |-> <<o.d>>,
                   caption |-> IF o.shape = "partial" THEN None ELSE Some(o.d)])

\* geocode, lines 1084-1104
geocode_process(q, o) ==
    IF Await(o) # NoExc THEN Raised(Await(o))
    ELSE IF o.shape = "empty" THEN Raised(HTTPExc("LOCATION_NOT_FOUND", 404))
    ELSE IF o.shape = "missing" THEN Raised(Exc("KeyError"))
    ELSE Returned([city |-> IF o.shape = "partial" THEN q.city[1] ELSE <<"c", o.d>>,
                   place |-> o.d])

Process(q, o, t0) ==
    CASE q.ep = "weather" -> weather_process(q, o)
      [] q.ep = "iss" -> iss_process(q, o)
      [] q.ep = "apod" -> apod_process(q, o)
      [] q.ep = "asteroids" -> asteroids_process(q, o, t0)
      [] q.ep = "earth" -> earth_process(q, o)
      [] q.ep = "geocode" -> geocode_process(q, o)

\* lines 716-723 and 862-869: the date and time the calculation is made for
SkyTime(q) ==
    IF q.date # None /\ q.time # None THEN <<q.date[1], q.time[1]>>
    ELSE IF q.date # None THEN <<q.date[1], <<21, 0>>>>
    ELSE <<DateAt(now), ClockAt(now)>>

SkyTimeValid(q) ==
    /\ q.date # None => ValidCalendar(q.date[1])
    /\ (q.date # None /\ q.time # None) => ValidClock(q.time[1])

\* get_moon, lines 350-412
moon_compute(q, o) ==
    LET dt == IF q.date # None THEN q.date[1] ELSE DateAt(now)
    IN  IF o.kind = "ioerror" THEN Raised(Exc("OSError"))
        ELSE IF q.date # None /\ ~ValidCalendar(q.date[1]) THEN Raised(Exc("ValueError"))
        ELSE Returned([date |-> dt, phase |-> <<"phase", dt>>,
                       riseset |-> IF q.latitude # None /\ q.longitude # None
                                   THEN Some(<<dt, q.latitude[1], q.longitude[1]>>)
                                   ELSE None])

\* get_planetary_position, lines 713-798
planet_compute(q, o) ==
    IF o.kind = "ioerror" THEN Raised(Exc("OSError"))
    ELSE IF ~SkyTimeValid(q) THEN Raised(Exc("ValueError"))
    ELSE Returned([planet |-> capitalize(q.planet[1]),
                   date |-> SkyTime(q)[1], time_utc |-> SkyTime(q)[2],
                   position |-> <<"radec", SkyTime(q)>>,
                   observability |-> IF q.latitude # None /\ q.longitude # None
                                     THEN Some(<<SkyTime(q), q.latitude[1], q.longitude[1]>>)
                                     ELSE None])

\* get_constellations, lines 859-945
constellations_compute(q, o) ==
    IF o.kind = "ioerror" THEN Raised(Exc("OSError"))
    ELSE IF ~SkyTimeValid(q) THEN Raised(Exc("ValueError"))
    ELSE Returned([date |-> SkyTime(q)[1], time_utc |-> SkyTime(q)[2],
                   location |-> <<q.latitude[1], q.longitude[1]>>,
                   visible_constellations |->
                       <<"sky", SkyTime(q), q.latitude[1], q.longitude[1], q.min_altitude[1]>>])

Computation(q, o) ==
    CASE q.ep = "moon" -> moon_compute(q, o)
      [] q.ep = "planet" -> planet_compute(q, o)
      [] q.ep = "constellations" -> constellations_compute(q, o)

----------------------------------------------------------------------------
(* A request: from its arrival to the first suspension point, and from the  *)
(* upstream's answer to the response                                         *)

NoObs ==
    [read |-> FALSE, key |-> None, readAt |-> 0, hit |-> FALSE, seen |-> None,
     before |-> {}, peers |-> {}, calls |-> 0, outcome |-> None, wrote |-> None]

\* what the handler observes when it calls cache.get(key)
ReadObs(r, key) ==
    [NoObs EXCEPT !.read = TRUE, !.key = Some(key), !.readAt = now,
                  !.hit = Truthy(GetResult(key)),
                  !.seen = IF key \in DOMAIN lastSet THEN Some(lastSet[key]) ELSE None,
                  !.before = {p \in Req : obs[p].wrote # None},
                  !.peers = {p \in Req : pc[p] = "fetching" /\ obs[p].key = Some(key)}]

\* the query parameters pass the framework's validation, and the planet
\* name passes the handler's own check (lines 698-701)
Accepted(q) ==
    /\ CoordinatesInRange(q)
    /\ q.ep = "planet" => capitalize(q.planet[1]) \in VALID_PLANETS

\* requests are numbered in the order they arrive
Arrive(r, q) ==
    /\ pc[r] = "idle"
    /\ \A p \in Req : p < r => pc[p] # "idle"
    /\ q \in Ins
    /\ rq' = [rq EXCEPT ![r] = q]
    /\ UNCHANGED <<now, ticks, scope, profile, calc>>

\* the request is turned away before the handler reads the cache
Reject(r, q) ==
    /\ Arrive(r, q)
    /\ ~Accepted(q)
    /\ resp' = [resp EXCEPT ![r] = IF ~CoordinatesInRange(q) THEN validation_error
                                   ELSE error_response("INVALID_PLANET", 400)]
    /\ pc' = [pc EXCEPT ![r] = "done"]
    /\ NoCacheStep
    /\ UNCHANGED obs

\* cache hit: `if cached_data: return success_response(json.loads(...), cached=True)`
ServeCached(r, q) ==
    /\ Arrive(r, q)
    /\ Accepted(q)
    /\ Truthy(GetResult(CacheKey(q)))
    /\ GetStep(CacheKey(q))
    /\ resp' = [resp EXCEPT ![r] = success_response(JsonLoads(GetResult(CacheKey(q))), TRUE)]
    /\ pc' = [pc EXCEPT ![r] = "done"]
    /\ obs' = [obs EXCEPT ![r] = ReadObs(r, CacheKey(q))]

\* the number of upstream calls a handler sends after a miss: one of its
\* own, whatever other requests have in flight for the same key
UpstreamCallsCoalesced(key) ==
    IF \E p \in Req : pc[p] = "fetching" /\ obs[p].key = Some(key) THEN 0 ELSE 1
UpstreamCalls(key) == 1

\* cache miss on an endpoint with an upstream: the handler sends its call
\* and is suspended at `await client.get(...)`
CallUpstream(r, q) ==
    /\ Arrive(r, q)
    /\ Accepted(q)
    /\ q.ep \in Upstreams
    /\ ~Truthy(GetResult(CacheKey(q)))
    /\ Prepare(q) = NoExc
    /\ GetStep(CacheKey(q))
    /\ pc' = [pc EXCEPT ![r] = "fetching"]
    /\ obs' = [obs EXCEPT ![r] = [ReadObs(r, CacheKey(q)) EXCEPT
                                        !.calls = UpstreamCalls(CacheKey(q))]]
    /\ UNCHANGED resp

\* cache miss, and the handler raises before it sends the call
FailBeforeCall(r, q) ==
    /\ Arrive(r, q)
    /\ Accepted(q)
    /\ q.ep \in Upstreams
    /\ ~Truthy(GetResult(CacheKey(q)))
    /\ Prepare(q) # NoExc
    /\ GetStep(CacheKey(q))
    /\ resp' = [resp EXCEPT ![r] = Catch(q.ep, Prepare(q))]
    /\ pc' = [pc EXCEPT ![r] = "done"]
    /\ obs' = [obs EXCEPT ![r] = ReadObs(r, CacheKey(q))]

\* the upstream answers (or the call times out) and the handler runs to its end
Resume(r, o) ==
    /\ pc[r] = "fetching"
    /\ o \in Outs
    /\ LET q == rq[r]
           p == Process(q, o, obs[r].readAt)
           value == JsonDumps(p.result[1])
       IN  IF p.ok
           THEN /\ SetexStep(CacheKey(q), Ttl(q), value, r)
                /\ resp' = [resp EXCEPT ![r] = success_response(p.result[1], FALSE)]
                /\ obs' = [obs EXCEPT ![r].outcome = Some(o),
                                      ![r].wrote = Some([time |-> now, ttl |-> Ttl(q),
                                                         value |-> value])]
           ELSE /\ NoCacheStep
                /\ resp' = [resp EXCEPT ![r] = Catch(q.ep, p.exc)]
                /\ obs' = [obs EXCEPT ![r].outcome = Some(o)]
    /\ pc' = [pc EXCEPT ![r] = "done"]
    /\ UNCHANGED <<now, ticks, scope, profile, rq, calc>>

\* cache miss on an endpoint that calculates locally: the handler runs to
\* its end without a suspension point
Compute(r, q, o) ==
    /\ Arrive(r, q)
    /\ Accepted(q)
    /\ q.ep \in Locals
    /\ ~Truthy(GetResult(CacheKey(q)))
    /\ o \in Outs
    /\ LET p == Computation(q, o)
           value == JsonDumps(p.result[1])
       IN  IF p.ok
           THEN /\ GetSetexStep(CacheKey(q), Ttl(q), value, r)
                /\ resp' = [resp EXCEPT ![r] = success_response(p.result[1], FALSE)]
                /\ obs' = [obs EXCEPT ![r] = [ReadObs(r, CacheKey(q)) EXCEPT
                                                !.outcome = Some(o),
                                                !.wrote = Some([time |-> now, ttl |-> Ttl(q),
                                                                value |-> value])]]
           ELSE /\ GetStep(CacheKey(q))
                /\ resp' = [resp EXCEPT ![r] = Catch(q.ep, p.exc)]
                /\ obs' = [obs EXCEPT ![r] = [ReadObs(r, CacheKey(q)) EXCEPT
                                                !.outcome = Some(o)]]
    /\ pc' = [pc EXCEPT ![r] = "done"]

----------------------------------------------------------------------------
(* Helper functions.  A fraction is a whole number of thousandths. *)

\* get_moon_phase_name, lines 166-192
get_moon_phase_name(x) ==
    IF 0 <= x /\ x < 30 THEN "New Moon"
    ELSE IF 30 <= x /\ x < 220 THEN "Waxing Crescent"
    ELSE IF 220 <= x /\ x < 280 THEN "First Quarter"
    ELSE IF 280 <= x /\ x < 470 THEN "Waxing Gibbous"
    ELSE IF 470 <= x /\ x < 530 THEN "Full Moon"
    ELSE IF 530 <= x /\ x < 720 THEN "Waning Gibbous"
    ELSE IF 720 <= x /\ x < 780 THEN "Last Quarter"
    ELSE IF 780 <= x /\ x <= 1000 THEN "Waning Crescent"
    ELSE "Unknown"

\* phase fractions 0.000, 0.001, ..., 1.000
PhaseValues == 0..1000

\* round(n / m) for integers n >= 0 and m > 0: the nearest integer, the even
\* one of the two at a tie
RoundDown(n, m) == n \div m
Round(n, m) ==
    LET q == n \div m
        r == n % m
    IN  IF 2 * r < m THEN q
        ELSE IF 2 * r > m THEN q + 1
        ELSE IF q % 2 = 0 THEN q ELSE q + 1

\* degrees_to_cardinal, lines 125-130, of a whole number of degrees
\* (degrees / 22.5 is 2 * degrees / 45)
directions == <<"N", "NNE", "NE", "ENE", "E", "ESE", "SE", "SSE",
                "S", "SSW", "SW", "WSW", "W", "WNW", "NW", "NNW">>
degrees_to_cardinal(degrees) ==
    LET index == Round(2 * degrees, 45) % 16
    IN  directions[index + 1]

\* wind directions 0, 1, ..., 360
DegreeValues == 0..360

\* the helper applied to its argument
Apply(fn, arg) ==
    CASE fn = "get_moon_phase_name" -> get_moon_phase_name(arg)
      [] fn = "degrees_to_cardinal" -> degrees_to_cardinal(arg)

Call(fn, arg) == [fn |-> fn, arg |-> arg, result |-> None]

\* the helper returns
Return ==
    /\ calc # None
    /\ calc[1].result = None
    /\ calc' = Some([calc[1] EXCEPT !.result = Some(Apply(calc[1].fn, calc[1].arg))])
    /\ UNCHANGED <<now, ticks, cache, expiry, ref, lastSet, lastGet,
                   scope, profile, pc, rq, resp, obs>>

----------------------------------------------------------------------------
(* Specifications *)

InitCache ==
    /\ now = 0
    /\ ticks = 0
    /\ cache = Empty
    /\ expiry = Empty
    /\ ref = Empty
    /\ lastSet = Empty
    /\ lastGet = None
    /\ scope = "none"
    /\ profile = "all"
    /\ pc = [r \in Req |-> "idle"]
    /\ rq = [r \in Req |-> NoRq]
    /\ resp = [r \in Req |-> NoResp]
    /\ obs = [r \in Req |-> NoObs]
    /\ calc = None

NextCache ==
    \/ \E k \in CKeys : Get(k)
    \/ \E k \in CKeys, t \in CTTLs, v \in CValues : Setex(k, t, v)
    \/ \E k \in CKeys : Delete(k)
    \/ Clear
    \/ Tick

InitHelpers ==
    /\ now = 0
    /\ ticks = 0
    /\ cache = Empty
    /\ expiry = Empty
    /\ ref = Empty
    /\ lastSet = Empty
    /\ lastGet = None
    /\ scope = "none"
    /\ profile = "all"
    /\ pc = [r \in Req |-> "idle"]
    /\ rq = [r \in Req |-> NoRq]
    /\ resp = [r \in Req |-> NoResp]
    /\ obs = [r \in Req |-> NoObs]
    /\ calc \in {Some(Call("get_moon_phase_name", x)) : x \in PhaseValues}
               \cup {Some(Call("degrees_to_cardinal", d)) : d \in DegreeValues}

NextHelpers == Return

\* the helper functions, each called once with one argument
SpecHelpers == InitHelpers /\ [][NextHelpers]_vars

\* the cache under direct calls
SpecCache == InitCache /\ [][NextCache]_vars

Init ==
    /\ now = 0
    /\ ticks = 0
    /\ cache = Empty
    /\ expiry = Empty
    /\ ref = Empty
    /\ lastSet = Empty
    /\ lastGet = None
    /\ scope \in Endpoints
    /\ profile = "all"
    /\ pc = [r \in Req |-> "idle"]
    /\ rq = [r \in Req |-> NoRq]
    /\ resp = [r \in Req |-> NoResp]
    /\ obs = [r \in Req |-> NoObs]
    /\ calc = None

Next ==
    \/ \E r \in Req, q \in Ins : Reject(r, q)
    \/ \E r \in Req, q \in Ins : ServeCached(r, q)
    \/ \E r \in Req, q \in Ins : CallUpstream(r, q)
    \/ \E r \in Req, q \in Ins : FailBeforeCall(r, q)
    \/ \E r \in Req, o \in Outs : Resume(r, o)
    \/ \E r \in Req, q \in Ins, o \in Outs : Compute(r, q, o)
    \/ Tick

\* the request handlers, the requests of one run calling one endpoint
Spec == Init /\ [][Next]_vars

InitFew ==
    /\ now = 0
    /\ ticks = 0
    /\ cache = Empty
    /\ expiry = Empty
    /\ ref = Empty
    /\ lastSet = Empty
    /\ lastGet = None
    /\ scope \in Endpoints
    /\ profile = "few"
    /\ pc = [r \in Req |-> "idle"]
    /\ rq = [r \in Req |-> NoRq]
    /\ resp = [r \in Req |-> NoResp]
    /\ obs = [r \in Req |-> NoObs]
    /\ calc = None

\* the request handlers under the smaller choice of requests and answers
SpecFew == InitFew /\ [][Next]_vars

\* Every client.get carries a timeout (5, 10, 8, 10, 8 and 4 seconds), so a
\* suspended handler is resumed -- with an answer or with TimeoutException --
\* and the event loop runs a resumed handler to its end.
Fairness == \A r \in Req : WF_vars(\E o \in Outcomes(scope) : Resume(r, o))

InitOne ==
    /\ now = 0
    /\ ticks = 0
    /\ cache = Empty
    /\ expiry = Empty
    /\ ref = Empty
    /\ lastSet = Empty
    /\ lastGet = None
    /\ scope \in Endpoints
    /\ profile = "one"
    /\ pc = [r \in Req |-> "idle"]
    /\ rq = [r \in Req |-> NoRq]
    /\ resp = [r \in Req |-> NoResp]
    /\ obs = [r \in Req |-> NoObs]
    /\ calc = None

InitProfile(p) ==
    /\ now = 0
    /\ ticks = 0
    /\ cache = Empty
    /\ expiry = Empty
    /\ ref = Empty
    /\ lastSet = Empty
    /\ lastGet = None
    /\ scope \in Endpoints
    /\ profile = p
    /\ pc = [r \in Req |-> "idle"]
    /\ rq = [r \in Req |-> NoRq]
    /\ resp = [r \in Req |-> NoResp]
    /\ obs = [r \in Req |-> NoObs]
    /\ calc = None

InitRange == InitProfile("range")

\* the request handlers under the smallest choice, with the requests whose
\* coordinates are off or on the edge of their range
SpecRange == InitRange /\ [][Next]_vars

InitDate == InitProfile("date")

\* the request handlers under the smallest choice, with the requests that
\* name a date
SpecDate == InitDate /\ [][Next]_vars

\* the request handlers under the smallest choice, with the upstream
\* answering or timing out
SpecLive == InitOne /\ [][Next]_vars /\ Fairness

----------------------------------------------------------------------------
(* Claims about SimpleCache *)

Gets == IF lastGet = None THEN {} ELSE {lastGet[1]}

\* C1: cache expiry correctness.  While the setex(k, t, v) made at time T is
\* the last call that touched k, get(k) returns v at every time before T + t
\* and returns absent at every time from T + t on (T + t itself included).
ExpiryCorrect ==
    /\ \A k \in DOMAIN lastSet :
        /\ now < lastSet[k].expires => GetResult(k) = lastSet[k].value
        /\ now >= lastSet[k].expires => GetResult(k) = None
    /\ \A g \in Gets : g.key \in DOMAIN lastSet =>
        /\ now < lastSet[g.key].expires => g.result = lastSet[g.key].value
        /\ now >= lastSet[g.key].expires => g.result = None

\* A get made at exactly T + t found the entry still stored and missed.
ExpiryCorrectWitness ==
    \E g \in Gets :
        /\ g.key \in DOMAIN lastSet
        /\ now = lastSet[g.key].expires
        /\ g.stored
        /\ g.result = None

\* C2: lazy eviction is unobservable.  In every state, what get(k) returns
\* is what the reference cache (entries dropped at the instant of expiry)
\* holds for k, and every get that was made returned the reference's answer.
LazyEvictionUnobservable ==
    /\ \A k \in DOMAIN cache \cup DOMAIN ref \cup DOMAIN lastSet :
        GetResult(k) = RefGet(k)
    /\ \A g \in Gets : g.result = g.refResult

\* A get of an entry that is past its expiry and still stored, answered
\* like a key that was never set.
LazyEvictionWitness ==
    \E g \in Gets :
        /\ g.stored
        /\ g.key \notin DOMAIN ref
        /\ now > lastSet[g.key].expires
        /\ g.result = None

\* C3: cache overwrite.  After two setex calls on k the maps hold the second
\* value and the expiry of the second call (its time plus its TTL), also
\* when that is earlier than the first expiry, and get answers from those.
OverwriteLastWins ==
    /\ \A k \in DOMAIN lastSet : k \in DOMAIN cache =>
        /\ cache[k] = lastSet[k].value
        /\ expiry[k] = lastSet[k].expires
    /\ \A g \in Gets : g.key \in DOMAIN lastSet =>
        g.result = IF now < lastSet[g.key].expires THEN lastSet[g.key].value ELSE None
    /\ DOMAIN cache \subseteq DOMAIN lastSet

\* The second setex replaced the value and shortened the expiry, and a get
\* before the new expiry returned the second value.
OverwriteWitness ==
    \E g \in Gets :
        /\ g.key \in DOMAIN lastSet
        /\ lastSet[g.key].replaced
        /\ lastSet[g.key].shortened
        /\ g.result = lastSet[g.key].value

----------------------------------------------------------------------------
(* Claims about the handlers *)

Read(r) == obs[r].read
Wrote(r) == obs[r].wrote # None
SameRounded(a, b) ==
    \/ a = None /\ b = None
    \/ a # None /\ b # None /\ Round2(a[1]) = Round2(b[1])

FailedFetch(o) ==
    \/ o.kind \in {"timeout", "status", "badjson"}
    \/ o.kind = "ok" /\ o.shape \in {"missing", "nofields"}

\* C5: no cache poisoning.  A request whose upstream call failed (timeout,
\* error status, malformed body, body without its required parts) or that
\* ended in an error wrote nothing to the cache.
NoCachePoisoning ==
    \A r \in Req :
        ( \/ resp[r].status = "error"
          \/ obs[r].outcome # None /\ FailedFetch(obs[r].outcome[1]) )
        => ~Wrote(r)

InFlight(key) == {r \in Req : pc[r] = "fetching" /\ obs[r].key = Some(key)}

\* C6: no single-flight.  A request that reads the cache and misses while
\* other requests for the same key are in flight (they missed too and have
\* not written yet) sends an upstream call of its own, as each of them did.
NoSingleFlight ==
    \A r \in Req :
        (Read(r) /\ ~obs[r].hit /\ obs[r].peers # {})
        => /\ obs[r].calls = 1
           /\ pc[r] \in {"fetching", "done"}
           /\ \A p \in obs[r].peers : obs[p].calls = 1 /\ ~obs[p].hit

\* Every request slot has a call in flight for one and the same key.
NoSingleFlightWitness ==
    \E r \in Req :
        /\ pc[r] = "fetching"
        /\ InFlight(obs[r].key[1]) = Req
        /\ \A p \in Req : obs[p].calls = 1

Raced(a, b) == a # b /\ a \in obs[b].peers /\ Wrote(a) /\ Wrote(b)

\* C7 as stated: two requests that race on a key write equal values.
RacingWritesEqual ==
    \A a \in Req, b \in Req :
        Raced(a, b) => obs[a].wrote[1].value = obs[b].wrote[1].value

\* C7 as amended: each of the two racing requests writes the result of its
\* own fetch, and the later write overwrites the earlier one -- the stored
\* value is the value of the request that wrote last.
RacingWritesLastWins ==
    \A a \in Req, b \in Req :
        Raced(a, b) =>
            LET key == obs[a].key[1]
                last == lastSet[key].by
            IN  /\ obs[a].wrote[1].value = JsonDumps(resp[a].data[1])
                /\ obs[b].wrote[1].value = JsonDumps(resp[b].data[1])
                /\ Wrote(last)
                /\ key \in DOMAIN cache => cache[key] = obs[last].wrote[1].value

\* Two racing requests wrote different values and the cache holds the value
\* of the one that arrived first and wrote last.
RacingWritesWitness ==
    \E a \in Req, b \in Req :
        /\ Raced(a, b)
        /\ obs[a].wrote[1].value # obs[b].wrote[1].value
        /\ lastSet[obs[a].key[1]].by = a
        /\ cache[obs[a].key[1]] = obs[a].wrote[1].value

ClaimedTtl(prefix) ==
    CASE prefix = "weather" -> 300
      [] prefix = "iss" -> 60
      [] prefix = "moon" -> 86400
      [] prefix = "apod" -> 86400
      [] prefix = "earth" -> 7200
      [] prefix = "asteroids" -> 43200
      [] prefix = "geocode" -> 2592000

ClaimedCategories == {"weather", "iss", "moon", "apod", "earth", "asteroids", "geocode"}

\* C8: TTL by data category.  Every cache write of a handler passes the TTL
\* of its category, and every stored entry expires that long after the time
\* it was written.
TtlByCategory ==
    /\ \A r \in Req : (Wrote(r) /\ rq[r].ep \in ClaimedCategories) =>
            obs[r].wrote[1].ttl = ClaimedTtl(rq[r].ep)
    /\ \A k \in DOMAIN cache : k[1] \in ClaimedCategories =>
            expiry[k] - lastSet[k].time = ClaimedTtl(k[1])

\* A geocode entry is stored with an expiry 30 days after its write.
TtlByCategoryWitness ==
    \E k \in DOMAIN cache :
        /\ k[1] = "geocode"
        /\ expiry[k] = lastSet[k].time + 2592000

OtherParamsEqual(p, q) ==
    [p EXCEPT !.latitude = None, !.longitude = None]
        = [q EXCEPT !.latitude = None, !.longitude = None]

\* C9: coordinate key normalization.  On weather, moon, planetary-position
\* and constellations, two requests whose coordinates agree to the rounding
\* precision and whose other parameters are equal have the same cache key.
CoordinateKeysNormalized ==
    \A a \in Req, b \in Req :
        ( /\ Read(a) /\ Read(b)
          /\ rq[a].ep \in {"weather", "moon", "planet", "constellations"}
          /\ OtherParamsEqual(rq[a], rq[b])
          /\ SameRounded(rq[a].latitude, rq[b].latitude)
          /\ SameRounded(rq[a].longitude, rq[b].longitude) )
        => obs[a].key = obs[b].key

RECURSIVE lstrip(_)
lstrip(str) == IF str # << >> /\ Head(str) = " " THEN lstrip(Tail(str)) ELSE str
RECURSIVE rstrip(_)
rstrip(str) ==
    IF str # << >> /\ str[Len(str)] = " " THEN rstrip(SubSeq(str, 1, Len(str) - 1)) ELSE str
Normalized(opt) ==
    IF opt = None THEN None
    ELSE Some([i \in 1..Len(lstrip(rstrip(opt[1]))) |-> Lower(lstrip(rstrip(opt[1]))[i])])

\* C10: place-name key normalization.  Two geocode requests whose city,
\* state and country differ only in letter case or in leading or trailing
\* whitespace have the same cache key.
PlaceKeysNormalized ==
    \A a \in Req, b \in Req :
        ( /\ Read(a) /\ Read(b)
          /\ rq[a].ep = "geocode" /\ rq[b].ep = "geocode"
          /\ Normalized(rq[a].city) = Normalized(rq[b].city)
          /\ Normalized(rq[a].state) = Normalized(rq[b].state)
          /\ Normalized(rq[a].country) = Normalized(rq[b].country) )
        => obs[a].key = obs[b].key

----------------------------------------------------------------------------
(* Claims about error responses *)

Done(r) == pc[r] = "done"
Missed(r) == Read(r) /\ ~obs[r].hit
Answered(r, kind) == obs[r].outcome # None /\ obs[r].outcome[1].kind = kind
Shaped(r, shape) == Answered(r, "ok") /\ obs[r].outcome[1].shape = shape
IsError(r, code, status_code) ==
    resp[r].status = "error" /\ resp[r].code = code /\ resp[r].http = status_code

\* an APOD request whose date is a calendar date outside the archive's range
ApodOutOfRange(r) ==
    /\ rq[r].ep = "apod" /\ Done(r) /\ Missed(r)
    /\ rq[r].date # None /\ ValidCalendar(rq[r].date[1])
    /\ \/ DateLess(rq[r].date[1], <<1995, 6, 16>>)
       \/ DateLess(DateAt(obs[r].readAt), rq[r].date[1])

\* C11: handler-classified errors reach the client unchanged.  A geocode
\* lookup with zero results ends in LOCATION_NOT_FOUND / 404, an Earth-image
\* request with no images in NO_IMAGES_AVAILABLE / 404, and an APOD request
\* with a date before 1995-06-16 or in the future in INVALID_DATE / 400.
ClassifiedErrorsUnchanged ==
    \A r \in Req :
        /\ (rq[r].ep = "geocode" /\ Shaped(r, "empty"))
                => IsError(r, "LOCATION_NOT_FOUND", 404)
        /\ (rq[r].ep = "earth" /\ Shaped(r, "empty"))
                => IsError(r, "NO_IMAGES_AVAILABLE", 404)
        /\ ApodOutOfRange(r) => IsError(r, "INVALID_DATE", 400)

\* request r leaves its upstream call in this step
Resumes(r) == pc[r] = "fetching" /\ pc'[r] = "done"

WeatherTimeoutStep ==
    \A r \in Req :
        (Resumes(r) /\ rq[r].ep = "weather" /\ obs'[r].outcome[1].kind = "timeout")
        => /\ resp'[r] = error_response("SERVICE_UNAVAILABLE", 503)
           /\ cache' = cache
           /\ expiry' = expiry

\* C12: weather upstream timeout.  The step in which a weather request's
\* upstream call times out sends SERVICE_UNAVAILABLE / 503 and leaves both
\* cache maps as they were; the request has written nothing.
WeatherTimeout ==
    /\ [][WeatherTimeoutStep]_vars
    /\ [](\A r \in Req : (rq[r].ep = "weather" /\ Answered(r, "timeout"))
                => (IsError(r, "SERVICE_UNAVAILABLE", 503) /\ ~Wrote(r)))

\* A weather request timed out while the entry of its key, written by a
\* request that was in flight with it, is in the cache.
WeatherTimeoutWitness ==
    \E r \in Req, w \in Req :
        /\ rq[r].ep = "weather" /\ Answered(r, "timeout")
        /\ IsError(r, "SERVICE_UNAVAILABLE", 503)
        /\ r \in obs[w].peers /\ Wrote(w)
        /\ obs[r].key[1] \in DOMAIN cache
        /\ cache[obs[r].key[1]] = obs[w].wrote[1].value

KeepsResponse == \A r \in Req : Done(r) => (pc'[r] = "done" /\ resp'[r] = resp[r])

\* C13: every request terminates.  A request suspended at its upstream call
\* eventually ends; a request that has ended has a response (success or
\* error), and that response is never replaced by another.
EveryRequestTerminates ==
    /\ \A r \in Req : (pc[r] = "fetching") ~> (pc[r] = "done")
    /\ [](\A r \in Req : Done(r) => resp[r].status \in {"success", "error", "invalid"})
    /\ [][KeepsResponse]_vars

\* A request has ended by a timeout while a request that was in flight with
\* it is still suspended.
EveryRequestTerminatesWitness ==
    \E r \in Req, p \in Req :
        /\ Answered(r, "timeout") /\ Done(r)
        /\ r \in obs[p].peers
        /\ pc[p] = "fetching"

ErrorCodes ==
    {"SERVICE_UNAVAILABLE", "SERVICE_ERROR", "INTERNAL_ERROR", "INVALID_DATE", "RATE_LIMITED",
     "INVALID_PLANET", "NO_IMAGES_AVAILABLE", "LOCATION_NOT_FOUND"}

BuiltByErrorResponse(r) ==
    /\ resp[r].status = "error"
    /\ resp[r].code \in ErrorCodes
    /\ resp[r].http >= 400 /\ resp[r].http <= 599

\* C14: structured errors only.  Every request that has ended without a
\* success response has ended with an error built by error_response: status
\* "error", an error code, and an HTTP status in 400..599.
StructuredErrorsOnly ==
    \A r \in Req : Done(r) => (resp[r].status = "success" \/ BuiltByErrorResponse(r))

\* C15: uniform timeout classification.  On every endpoint with an upstream
\* a request whose upstream call timed out ends in SERVICE_UNAVAILABLE / 503.
TimeoutIsServiceUnavailable ==
    \A r \in Req :
        (rq[r].ep \in Upstreams /\ Answered(r, "timeout"))
        => IsError(r, "SERVICE_UNAVAILABLE", 503)

RateLimited(r) == Answered(r, "status") /\ obs[r].outcome[1].status = 429

\* C16: rate-limit classification.  On every endpoint with an upstream a
\* request whose upstream answered 429 ends in RATE_LIMITED / 429.
RateLimitIsRateLimited ==
    \A r \in Req :
        (rq[r].ep \in Upstreams /\ RateLimited(r)) => IsError(r, "RATE_LIMITED", 429)

\* a latitude outside [-90, 90] or a longitude outside [-180, 180]
OffRange(q) ==
    \/ q.latitude # None /\ (q.latitude[1] < -900000 \/ q.latitude[1] > 900000)
    \/ q.longitude # None /\ (q.longitude[1] < -1800000 \/ q.longitude[1] > 1800000)

RejectedStep ==
    \A r \in Req :
        (pc[r] = "idle" /\ pc'[r] # "idle" /\ OffRange(rq'[r]))
        => /\ cache' = cache /\ expiry' = expiry
           /\ obs'[r] = NoObs
           /\ resp'[r] = validation_error

\* C17: coordinate validation at the boundary.  A request with a latitude
\* outside [-90, 90] or a longitude outside [-180, 180] ends in the step it
\* arrives in, with the framework's rejection; it has read no cache entry,
\* sent no upstream call and written nothing, and both cache maps are as
\* they were.
CoordinatesRejectedAtBoundary ==
    /\ [][RejectedStep]_vars
    /\ [](\A r \in Req : (pc[r] # "idle" /\ OffRange(rq[r]))
                => /\ Done(r) /\ resp[r] = validation_error
                   /\ ~Read(r) /\ obs[r].calls = 0 /\ ~Wrote(r))

\* A request with a longitude out of range was rejected while the cache
\* holds an entry, after a request with latitude 90 was served.
CoordinatesRejectedWitness ==
    \E r \in Req, a \in Req :
        /\ Done(r) /\ rq[r].longitude # None /\ rq[r].longitude[1] > 1800000
        /\ resp[r] = validation_error
        /\ rq[a].latitude = Some(900000) /\ Wrote(a)
        /\ DOMAIN cache # {}

----------------------------------------------------------------------------
(* Claims about what the handlers do to the cache *)

\* the step stores a new entry under k, written by a request that answers
\* with success
Rewritten(k) ==
    /\ lastSet'[k].time = now
    /\ lastSet'[k].by \in Req
    /\ pc[lastSet'[k].by] # "done" /\ pc'[lastSet'[k].by] = "done"
    /\ resp'[lastSet'[k].by].status = "success"
    /\ cache'[k] = lastSet'[k].value
    /\ expiry'[k] >= expiry[k]

UnexpiredKept ==
    \A k \in DOMAIN cache :
        now < expiry[k]
        => /\ k \in DOMAIN cache' /\ k \in DOMAIN expiry'
           /\ \/ cache'[k] = cache[k] /\ expiry'[k] = expiry[k]
              \/ Rewritten(k)

\* C18: no explicit invalidation by endpoints.  No step of any handler
\* removes an unexpired entry: it stays as it is or is replaced by the write
\* of a request that succeeded; and a request that reads a key between a
\* write of that key and that write's expiry hits.
NoInvalidationByHandlers ==
    /\ [][UnexpiredKept]_vars
    /\ [](\A r \in Req, w \in Req :
            ( /\ Read(r) /\ w \in obs[r].before /\ obs[w].key = obs[r].key
              /\ obs[r].readAt < obs[w].wrote[1].time + obs[w].wrote[1].ttl )
            => obs[r].hit)

\* An entry was replaced, after it was written and before it expired, by
\* the different value of a request that had been in flight with its writer;
\* the cache holds the newer value.
NoInvalidationWitness ==
    \E a \in Req, b \in Req :
        /\ Raced(a, b)
        /\ obs[a].wrote[1].time < obs[b].wrote[1].time
        /\ obs[b].wrote[1].time < obs[a].wrote[1].time + obs[a].wrote[1].ttl
        /\ lastSet[obs[b].key[1]].by = b
        /\ lastSet[obs[b].key[1]].replaced
        /\ cache[obs[b].key[1]] = obs[b].wrote[1].value

DateKeyed == {"moon", "apod", "earth"}
Sentinel(ep) == IF ep = "earth" THEN "latest" ELSE "today"
SameButDate(p, q) == [p EXCEPT !.date = None] = [q EXCEPT !.date = None]

\* C19: the date sentinel shares one slot.  On moon, APOD and Earth image,
\* requests without a date (other parameters equal) read one key, which
\* holds the word today / today / latest; one of them that reads within the
\* TTL of another one's write is served from the cache without an upstream
\* call; and a request with a date reads another key.
DateSentinelSharesSlot ==
    \A a \in Req, b \in Req :
        (Read(a) /\ Read(b) /\ rq[a].ep \in DateKeyed /\ SameButDate(rq[a], rq[b])
         /\ rq[a].date = None)
        => /\ obs[a].key[1][2] = <<Sentinel(rq[a].ep)>>
           /\ rq[b].date = None => obs[a].key = obs[b].key
           /\ rq[b].date # None => obs[a].key # obs[b].key
           /\ ( /\ rq[b].date = None /\ b \in obs[a].before
                /\ obs[a].readAt < obs[b].wrote[1].time + obs[b].wrote[1].ttl )
              => /\ obs[a].hit /\ obs[a].calls = 0
                 /\ Done(a) /\ resp[a].cached
                 /\ resp[a].data = resp[obs[a].seen[1].by].data

\* An APOD request without a date is served, in the last second of the TTL,
\* what an earlier one without a date stored.
DateSentinelWitness ==
    \E a \in Req, b \in Req :
        /\ rq[a].ep = "apod" /\ rq[a].date = None /\ rq[b].date = None
        /\ b \in obs[a].before
        /\ obs[a].readAt = obs[b].wrote[1].time + 86399
        /\ resp[a].cached
        /\ resp[a].data = resp[b].data

----------------------------------------------------------------------------
(* Claims about the helper functions *)

HelperReturned(fn) ==
    calc # None /\ calc[1].fn = fn /\ calc[1].result # None

\* C20: moon-phase classifier boundaries.  get_moon_phase_name returns
\* "New Moon" for 0.0 and "Full Moon" for 0.5, and for 1.0 the name it
\* returns for 0.0.
MoonPhaseBoundaries ==
    HelperReturned("get_moon_phase_name")
    => /\ calc[1].arg = 0 => calc[1].result = Some("New Moon")
       /\ calc[1].arg = 500 => calc[1].result = Some("Full Moon")
       /\ calc[1].arg = 1000 => calc[1].result = Some("New Moon")

----------------------------------------------------------------------------
(* Claims about the geocode fallback and the compass helper *)

FairbanksAlaska(r) ==
    rq[r].ep = "geocode" /\ rq[r].city = Some(Fairbanks) /\ rq[r].state = Some(Alaska)

\* C21: geocode static fallback.  A geocode request for city Fairbanks,
\* state Alaska always ends in a success response, whatever the live lookup
\* does (empty result, timeout, error status); it never ends in an error.
GeocodeStaticFallback ==
    \A r \in Req : (Done(r) /\ FairbanksAlaska(r)) => resp[r].status = "success"

Abs(x) == IF x < 0 THEN -x ELSE x

\* the compass points by sector: sector i is centred on i * 22.5 degrees,
\* and sector 16 (centred on 360) is sector 0 again
Compass(i) ==
    CASE i % 16 = 0 -> "N"    [] i % 16 = 1 -> "NNE"  [] i % 16 = 2 -> "NE"
      [] i % 16 = 3 -> "ENE"  [] i % 16 = 4 -> "E"    [] i % 16 = 5 -> "ESE"
      [] i % 16 = 6 -> "SE"   [] i % 16 = 7 -> "SSE"  [] i % 16 = 8 -> "S"
      [] i % 16 = 9 -> "SSW"  [] i % 16 = 10 -> "SW"  [] i % 16 = 11 -> "WSW"
      [] i % 16 = 12 -> "W"   [] i % 16 = 13 -> "WNW" [] i % 16 = 14 -> "NW"
      [] i % 16 = 15 -> "NNW"

\* C22: degrees_to_cardinal.  For every whole d in 0..360 the function
\* returns the name of the 16-point compass sector (width 22.5 degrees)
\* whose centre is nearest to d, 360 counting as 0; 0 gives N, 90 gives E
\* and 359 gives N; the index it computes is within 0..15.
CardinalNearestSector ==
    HelperReturned("degrees_to_cardinal")
    => LET d == calc[1].arg
       IN  /\ \E i \in 0..16 :
                /\ calc[1].result = Some(Compass(i))
                /\ \A j \in 0..16 : Abs(2 * d - 45 * i) <= Abs(2 * d - 45 * j)
           /\ \E i \in 0..15 : calc[1].result = Some(directions[i + 1])
           /\ d = 0 => calc[1].result = Some("N")
           /\ d = 90 => calc[1].result = Some("E")
           /\ d = 359 => calc[1].result = Some("N")

\* The function returned N for 359 degrees, whose quotient rounds to 16.
CardinalNearestSectorWitness ==
    /\ HelperReturned("degrees_to_cardinal")
    /\ calc[1].arg = 359
    /\ calc[1].result = Some("N")

----------------------------------------------------------------------------
(* Further claims about SimpleCache *)

\* the step is a call of get(key)
GetCalled(key) == lastGet' # None /\ lastGet'[1].key = key

\* get(k) on an entry whose expiry has been reached
EvictingGetStep ==
    \A k \in CKeys :
        (GetCalled(k) /\ k \in DOMAIN cache /\ now >= expiry[k])
        => /\ lastGet'[1].result = None
           /\ k \notin DOMAIN cache'
           /\ k \notin DOMAIN expiry'

\* the clock advances
TimePassesStep == now' # now => (cache' = cache /\ expiry' = expiry)

\* C23: lazy eviction on read.  get(k) on an entry whose expiry has been
\* reached returns absent and removes k from both the value map and the
\* expiry map; the passage of time alone removes nothing.
LazyEvictionOnRead == [][EvictingGetStep /\ TimePassesStep]_vars

\* An entry stayed stored past its expiry while only the clock moved, and
\* the get that followed returned absent and left the key in neither map.
LazyEvictionOnReadWitness ==
    \E g \in Gets :
        /\ g.stored
        /\ g.result = None
        /\ now > lastSet[g.key].expires
        /\ g.key \notin DOMAIN cache
        /\ g.key \notin DOMAIN expiry

\* C24: cache bookkeeping invariant.  After any sequence of get, setex,
\* delete and clear the value map and the expiry map have the same key set:
\* every stored value has an expiry and every expiry a stored value.
CacheBookkeeping == DOMAIN cache = DOMAIN expiry

\* One key is stored with its value and its expiry, after a get has evicted
\* the expired entry of another key.
CacheBookkeepingWitness ==
    \E g \in Gets :
        /\ g.stored
        /\ g.result = None
        /\ g.key \notin DOMAIN cache
        /\ \E k \in CKeys \ {g.key} : k \in DOMAIN cache /\ k \in DOMAIN expiry

\* a map without its entry for k
Rest(m, k) == [j \in {i \in DOMAIN m : i # k} |-> m[j]]

\* the step leaves the value and the expiry of every key but k as they were
OthersKept(k) ==
    /\ Rest(cache', k) = Rest(cache, k)
    /\ Rest(expiry', k) = Rest(expiry, k)

\* the step is a call of setex(k, ...): it records its call for k
SetexCalled(k) ==
    /\ k \in DOMAIN lastSet'
    /\ k \in DOMAIN lastSet => lastSet'[k] # lastSet[k]

\* the step is a call of delete(k): the record of k's setex is dropped, and
\* no other
DeleteCalled(k) ==
    /\ k \in DOMAIN lastSet
    /\ DOMAIN lastSet' = DOMAIN lastSet \ {k}

FrameStep ==
    \A k \in CKeys :
        /\ GetCalled(k) => OthersKept(k)
        /\ SetexCalled(k) => OthersKept(k)
        /\ DeleteCalled(k) => OthersKept(k)
        /\ (GetCalled(k) /\ (k \notin DOMAIN cache \/ now < expiry[k]))
           => (cache' = cache /\ expiry' = expiry)

\* C25: frame of cache operations.  get(k), setex(k, ...) and delete(k)
\* leave the value and expiry of every key other than k unchanged, and
\* get(k) on an absent or unexpired key changes nothing in the cache.
CacheFrame == [][FrameStep]_vars

\* Key k was overwritten by a later setex while another key, set earlier,
\* still holds the value and the expiry of its own setex.
CacheFrameWitness ==
    \E k \in DOMAIN lastSet, j \in DOMAIN lastSet :
        /\ j # k
        /\ lastSet[k].replaced
        /\ lastSet[j].time < lastSet[k].time
        /\ cache[j] = lastSet[j].value
        /\ expiry[j] = lastSet[j].expires

----------------------------------------------------------------------------
(* Further claims about the handlers *)

\* C26: last completed fetch wins.  When two requests for the same key both
\* miss and both fetch successfully, the cache afterwards (until a later
\* write or eviction) holds exactly the value and the expiry written by the
\* one whose fetch completed last, whichever of them started first, and the
\* expiry is counted from that write.
LastCompletedFetchWins ==
    \A a \in Req, b \in Req :
        Raced(a, b) =>
            LET key == obs[a].key[1]
                last == lastSet[key].by
            IN  (last \in {a, b} /\ key \in DOMAIN cache) =>
                    /\ cache[key] = obs[last].wrote[1].value
                    /\ cache[key] = JsonDumps(resp[last].data[1])
                    /\ expiry[key] = obs[last].wrote[1].time + obs[last].wrote[1].ttl
                    /\ \A p \in {a, b} : obs[p].wrote[1].time <= obs[last].wrote[1].time

\* The request that started first completed last, some time after it had
\* arrived: the cache holds its value, not the other's, and the expiry of
\* its write.
LastCompletedFetchWitness ==
    \E a \in Req, b \in Req :
        /\ Raced(a, b)
        /\ lastSet[obs[a].key[1]].by = a
        /\ obs[a].readAt < obs[a].wrote[1].time
        /\ obs[b].wrote[1].time < obs[a].wrote[1].time
        /\ obs[a].wrote[1].value # obs[b].wrote[1].value
        /\ cache[obs[a].key[1]] = obs[a].wrote[1].value
        /\ expiry[obs[a].key[1]] = obs[a].wrote[1].time + obs[a].wrote[1].ttl

\* the request was answered from the cache: it read a stored value and
\* returned it, with no upstream call, no calculation and no write
FromCache(r) ==
    /\ obs[r].hit
    /\ obs[r].seen # None
    /\ resp[r].data = Some(JsonLoads(obs[r].seen[1].value))
    /\ obs[r].calls = 0
    /\ obs[r].outcome = None
    /\ ~Wrote(r)

\* the request produced its data itself (one upstream call, or a local
\* calculation) and wrote it to the cache
Produced(r) ==
    /\ Missed(r)
    /\ obs[r].outcome # None
    /\ rq[r].ep \in Upstreams => obs[r].calls = 1
    /\ Wrote(r)
    /\ obs[r].wrote[1].value = JsonDumps(resp[r].data[1])

\* C27: the cached flag is truthful.  A success response carries
\* cached = true if and only if its data was read from the cache and the
\* request made no upstream call or computation, and cached = false if and
\* only if the request produced the data itself and wrote it to the cache
\* before responding.
CachedFlagTruthful ==
    \A r \in Req :
        (Done(r) /\ resp[r].status = "success") =>
            /\ resp[r].cached = TRUE <=> FromCache(r)
            /\ resp[r].cached = FALSE <=> Produced(r)

\* One request produced its data and answered cached = false; a later one
\* was served that entry and answered cached = true.
CachedFlagWitness ==
    \E a \in Req, b \in Req :
        /\ Done(a) /\ Produced(a) /\ resp[a].status = "success" /\ resp[a].cached = FALSE
        /\ Done(b) /\ FromCache(b) /\ resp[b].status = "success" /\ resp[b].cached = TRUE
        /\ obs[b].seen[1].by = a

----------------------------------------------------------------------------
(* Claims about dates and echoed parameters *)

DateEndpoints == {"moon", "apod", "planet", "constellations", "earth"}

\* the request names a date that matches \d{4}-\d{2}-\d{2} and is not a
\* date of the calendar
CalendarInvalid(r) ==
    rq[r].ep \in DateEndpoints /\ rq[r].date # None /\ ~ValidCalendar(rq[r].date[1])

\* C28: calendar-invalid dates are invalid input.  On every date-accepting
\* endpoint a request whose date is not a real calendar date is answered
\* with a 4xx error, no upstream call having been made and nothing written
\* to the cache.
CalendarInvalidRejected ==
    \A r \in Req :
        (Done(r) /\ CalendarInvalid(r)) =>
            /\ resp[r].status = "error"
            /\ resp[r].http \in 400..499
            /\ obs[r].calls = 0
            /\ ~Wrote(r)

\* C29: the weather response echoes the request.  Every weather success
\* response, served from the cache or freshly fetched, reports in its data
\* the latitude and longitude of the request it answers.
WeatherEchoesRequest ==
    \A r \in Req :
        (Done(r) /\ rq[r].ep = "weather" /\ resp[r].status = "success") =>
            /\ resp[r].data[1].latitude = rq[r].latitude[1]
            /\ resp[r].data[1].longitude = rq[r].longitude[1]

\* C30: the moon default date is current.  Every moon success response to a
\* request that omits the date, served from the cache or freshly computed,
\* reports in its data.date the UTC date current at the time of the request.
MoonDefaultDateCurrent ==
    \A r \in Req :
        (Done(r) /\ rq[r].ep = "moon" /\ rq[r].date = None /\ resp[r].status = "success") =>
            resp[r].data[1].date = DateAt(obs[r].readAt)

\* C31: planetary-position TTL follows location.  The handler writes its
\* cache entry with TTL 300 s exactly when the response contains
\* observability data (both latitude and longitude were given), and with
\* TTL 3600 s exactly when it does not.
PlanetTtlFollowsLocation ==
    \A r \in Req :
        (Done(r) /\ rq[r].ep = "planet" /\ Wrote(r) /\ resp[r].status = "success") =>
            /\ obs[r].wrote[1].ttl = 300 <=> resp[r].data[1].observability # None
            /\ obs[r].wrote[1].ttl = 3600 <=> resp[r].data[1].observability = None

====
